---- MODULE Spec2Model ----
(***************************************************************************)
(* Model of scripts/generate_test_data.py: the TestDataGenerator object    *)
(* (identity pools, cells, cell -> locations), its three pattern           *)
(* generators, generate_dataset, send_movements and the driver main().     *)
(*                                                                         *)
(* Every random draw and every environment outcome (clock tick, HTTP       *)
(* outcome, file write, console answer) is a nondeterministic choice.  A   *)
(* draw has a default value (the first element of its range); `budget` is  *)
(* the number of draws of a run that may still take another value.         *)
(* The payload fields movement_type and confidence_level, which no         *)
(* operation reads back, are left out of the movement records.             *)
(***************************************************************************)
EXTENDS Integers, Sequences, FiniteSets, TLC

\* ------------------------------------------------------------------ bounds
\* Scaled-down sizes of the pools and loops (the program's values in brackets).
NumDevices == 3      \* [50]   range(50)
NumLocations == 3    \* [20]   range(20)
NumCells == 2        \* [3]    range(0, 15, 5)
CellSize == 2        \* [5]    owner_ids[i:i + 5]
LocsPerCell == 2     \* [5]    random.sample(self.location_ids, 5)
NumNormal == 1       \* [1000] range(1000)
NumTransfers == 1    \* [10]   range(10)
ProgressEvery == 2   \* [100]  i % 100
MaxMovements == 4    \* longest list handed to send_movements directly
MaxVaried == 1       \* draws of one run that take a non-default value
MaxVariedLong == 0   \* the same, in the runs that assemble a whole dataset
MaxCalls == 2        \* calls the object's user makes on one object

\* ------------------------------------------------------- program constants
HoursBack == 48          \* random.randint(0, 48)
MinDevices == 1          \* random.randint(1, 3)
MaxDevices == 3
CurMinOffset == 0        \* random.randint(0, 30)
CurMaxOffset == 30
NextMinOffset == 45      \* random.randint(45, 90)
NextMaxOffset == 90
HandMinOffset == 15      \* random.randint(15, 30)
HandMaxOffset == 30
DefaultDelay == 100      \* delay=0.1, in milliseconds

\* ----------------------------------------------------------------- helpers
Range(s) == {s[k] : k \in 1..Len(s)}

Min(a, b) == IF a < b THEN a ELSE b

\* Python's seq[a:b] for 0 <= a <= b: the slice is cut at the end of seq.
Slice(s, a, b) == SubSeq(s, a + 1, Min(b, Len(s)))

\* [f"D{i:05d}" for i in range(50)] and its siblings: an id is its number.
device_ids == [k \in 1..NumDevices |-> k - 1]
owner_ids == [k \in 1..(2 * NumCells * CellSize) |-> k - 1]
location_ids == [k \in 1..NumLocations |-> k - 1]

\* random.randint(a, b): both ends and the middle of the range; default a.
RandInt(a, b) == {a, (a + b) \div 2, b}

\* random.choice(seq): any element; default the first.
Choice(s) == Range(s)

\* random.sample(seq, k): k distinct elements, here the windows of k
\* consecutive elements (wrapping around); default the first k.
\* k > len(seq) raises ValueError: no sample.
Sample(s, k) ==
    IF k > Len(s) THEN {}
    ELSE {[j \in 1..k |-> s[((st + j - 1) % Len(s)) + 1]] : st \in 0..(Len(s) - 1)}

DefaultSample(s, k) == SubSeq(s, 1, k)

Cost(v, dflt) == IF v = dflt THEN 0 ELSE 1

\* ---------------------------------------------------------------- datetime
\* A naive datetime: minutes since day 0 00:00, seconds, microseconds.
AddMinutes(t, k) == [t EXCEPT !.mins = @ + k]

AddHours(t, h) == AddMinutes(t, 60 * h)

AddMicros(t, k) ==
    LET us == t.us + k
        sc == t.secs + (us \div 1000000)
    IN [mins |-> t.mins + (sc \div 60), secs |-> sc % 60, us |-> us % 1000000]

\* datetime.isoformat(): "YYYY-MM-DDTHH:MM:SS", then ".ffffff" only when the
\* microsecond is not 0.  Every field is zero-padded to a fixed width, so the
\* string is the sequence of its fields.
isoformat(t) ==
    <<t.mins \div 1440, (t.mins % 1440) \div 60, t.mins % 60, t.secs>>
        \o (IF t.us = 0 THEN <<>> ELSE <<t.us>>)

\* The instant an ISO string denotes, in microseconds after day 0 of its minute
\* count: used only to state properties.
InstantMinutes(s) == (s[1] * 1440) + (s[2] * 60) + s[3]

InstantMicros(s) == (s[4] * 1000000) + (IF Len(s) > 4 THEN s[5] ELSE 0)

Before(s1, s2) ==
    \/ InstantMinutes(s1) < InstantMinutes(s2)
    \/ /\ InstantMinutes(s1) = InstantMinutes(s2)
       /\ InstantMicros(s1) < InstantMicros(s2)

\* Python's str < str, character by character from position k on: the first
\* differing character decides; a proper prefix is smaller.
RECURSIVE LessFrom(_, _, _)
LessFrom(a, b, k) ==
    IF k > Len(b) THEN FALSE
    ELSE IF k > Len(a) THEN TRUE
    ELSE IF a[k] = b[k] THEN LessFrom(a, b, k + 1)
    ELSE a[k] < b[k]

StrLess(a, b) == LessFrom(a, b, 1)

\* The movement dict built by the three generators.
Movement(dev, own, t, loc) ==
    [device_id |-> dev, owner_id |-> own, timestamp |-> isoformat(t),
     location_id |-> loc]

\* ------------------------------------------------------------------- state
VARIABLES
    terrorist_cells,   \* self.terrorist_cells
    cell_locations,    \* self.cell_locations, keyed by tuple(cell)
    clock,             \* the wall clock datetime.now() reads
    budget,            \* draws that may still take a non-default value
    calls,             \* calls made so far by the object's user
    pc,                \* position of the running function
    stack,             \* positions to return to
    cell_members,      \* generate_cell_movement_pattern: argument
    member_devices,    \*   member -> devices
    mi, di,            \*   positions of the member and device loops
    cell,              \* generate_device_transfer_pattern: chosen cell
    device_id,         \*   device to be transferred
    locations, base_time, i,   \* locals of both pattern generators (and
                               \* send_movements' record counter i)
    movements,         \* the generators' result list; send_movements' input
    all_movements,     \* generate_dataset
    cnt,               \*   iterations done of its running loop
    results, delay,    \* send_movements
    trace,             \* what the outside saw: POSTs, sleeps, notices, files
    answer             \* the line typed at the prompt

obj == <<terrorist_cells, cell_locations>>
env == <<clock, budget>>
user == <<calls>>
ctl == <<pc, stack>>
cellv == <<cell_members, member_devices, mi, di>>
xferv == <<cell, device_id>>
genv == <<locations, base_time, i, movements>>
dsv == <<all_movements, cnt>>
sendv == <<results, delay>>
io == <<trace, answer>>
vars == <<obj, env, user, ctl, cellv, xferv, genv, dsv, sendv, io>>

NoTime == [mins |-> 0, secs |-> 0, us |-> 0]
NoAnswer == "<none>"

\* The instant the program starts: day 2, 23:59:59.999999, so that the clock
\* crosses a day boundary and reads a whole second on its way.
StartClock == [mins |-> (2 * 1440) + (23 * 60) + 59, secs |-> 59, us |-> 999999]

\* Or any other instant: here one that reads a whole second at once.
StartClocks == {StartClock, [mins |-> (2 * 1440) + 30, secs |-> 7, us |-> 0]}

\* TestDataGenerator.__init__
CellsAtInit ==
    [c \in 1..NumCells |->
        Slice(owner_ids, (c - 1) * CellSize, ((c - 1) * CellSize) + CellSize)]

InitWith(varied) ==
    /\ terrorist_cells = CellsAtInit
    /\ \E cl \in [Range(CellsAtInit) -> Sample(location_ids, LocsPerCell)] :
         LET spent == Cardinality({key \in DOMAIN cl :
                         cl[key] # DefaultSample(location_ids, LocsPerCell)})
         IN /\ spent <= varied
            /\ cell_locations = cl
            /\ budget = varied - spent
    /\ clock \in StartClocks
    /\ calls = 0
    /\ pc = "idle"
    /\ stack = <<>>
    /\ cell_members = <<>>
    /\ member_devices = <<>>
    /\ mi = 0
    /\ di = 0
    /\ cell = <<>>
    /\ device_id = 0
    /\ locations = <<>>
    /\ base_time = NoTime
    /\ i = 0
    /\ movements = <<>>
    /\ all_movements = <<>>
    /\ cnt = 0
    /\ results = <<>>
    /\ delay = 0
    /\ trace = <<>>
    /\ answer = NoAnswer

\* ------------------------------------------------------------ random, clock
\* datetime.now(): the clock has moved on by the next reading (default), or
\* is read twice at the same microsecond.
Ticks == {1, 0}

\* As if a step of the cell pattern advanced the base time by one hour only.
CellStepHoursShort == 2 - 1

CellStepHours == 2       \* base_time += timedelta(hours=2)
TransferStepHours == 3   \* base_time += timedelta(hours=3)

\* Leaving a frame: its locals are gone.
ResetCellLocals ==
    /\ cell_members' = <<>>
    /\ member_devices' = <<>>
    /\ mi' = 0
    /\ di' = 0

ResetTransferLocals ==
    /\ cell' = <<>>
    /\ device_id' = 0

ResetLoopLocals ==
    /\ locations' = <<>>
    /\ base_time' = NoTime
    /\ i' = 0

\* --------------------------------------------- generate_normal_movement
generate_normal_movement(dev, own, loc, h, now) ==
    Movement(dev, own, AddHours(now, 0 - h), loc)

\* One call: its draws, the clock reading, and the record handed to `use`.
NormalCall(use(_)) ==
    \E dev \in Choice(device_ids), own \in Choice(owner_ids),
       loc \in Choice(location_ids), h \in RandInt(0, HoursBack), tk \in Ticks :
        LET spent == Cost(dev, device_ids[1]) + Cost(own, owner_ids[1])
                     + Cost(loc, location_ids[1]) + Cost(h, 0) + Cost(tk, 1)
        IN /\ spent <= budget
           /\ budget' = budget - spent
           /\ clock' = AddMicros(clock, tk)
           /\ use(generate_normal_movement(dev, own, loc, h, clock))

\* The object's user calls generate_normal_movement() and drops the record.
Dropped(rec) == TRUE

HarnessNormal ==
    /\ pc = "idle"
    /\ calls < MaxCalls
    /\ calls' = calls + 1
    /\ NormalCall(Dropped)
    /\ UNCHANGED <<obj, ctl, cellv, xferv, genv, dsv, sendv, io>>

\* --------------------------------------- generate_cell_movement_pattern
\* As if every pattern drew the locations of its cell afresh and stored them.
EnterCellResampling(cm) ==
    /\ cm \in DOMAIN cell_locations
    /\ \E h \in RandInt(0, HoursBack), tk \in Ticks :
        LET spent == Cost(h, 0) + Cost(tk, 1)
        IN /\ spent <= budget
           /\ budget' = budget - spent
           /\ clock' = AddMicros(clock, tk)
           /\ base_time' = AddHours(clock, 0 - h)
    /\ \E smp \in Sample(location_ids, LocsPerCell) :
        /\ cell_locations' = [cell_locations EXCEPT ![cm] = smp]
        /\ locations' = smp
    /\ cell_members' = cm
    /\ member_devices' = <<>>
    /\ movements' = <<>>
    /\ mi' = 1
    /\ di' = 1
    /\ i' = 0
    /\ pc' = "cell_assign"
    /\ UNCHANGED terrorist_cells

\* Lines 47-49: the lookup of the cell's locations and the base time.
\* The dict comprehension of lines 52-55 runs member by member (CellAssign).
EnterCell(cm) ==
    /\ cm \in DOMAIN cell_locations      \* otherwise KeyError: no pattern
    /\ \E h \in RandInt(0, HoursBack), tk \in Ticks :
        LET spent == Cost(h, 0) + Cost(tk, 1)
        IN /\ spent <= budget
           /\ budget' = budget - spent
           /\ clock' = AddMicros(clock, tk)
           /\ base_time' = AddHours(clock, 0 - h)
    /\ cell_members' = cm
    /\ locations' = cell_locations[cm]
    /\ member_devices' = <<>>
    /\ movements' = <<>>
    /\ mi' = 1
    /\ di' = 1
    /\ i' = 0
    /\ pc' = "cell_assign"
    /\ UNCHANGED obj

HarnessCallCell ==
    /\ pc = "idle"
    /\ calls < MaxCalls
    /\ calls' = calls + 1
    /\ \E c \in DOMAIN terrorist_cells : EnterCell(terrorist_cells[c])
    /\ UNCHANGED <<stack, xferv, dsv, sendv, io>>

\* member: random.sample(self.device_ids, random.randint(1, 3))
CellAssign ==
    /\ pc = "cell_assign"
    /\ mi <= Len(cell_members)
    /\ \E k \in RandInt(MinDevices, MaxDevices) :
       \E smp \in Sample(device_ids, k) :
        LET spent == Cost(k, MinDevices) + Cost(smp, DefaultSample(device_ids, k))
        IN /\ spent <= budget
           /\ budget' = budget - spent
           /\ member_devices' = (cell_members[mi] :> smp) @@ member_devices
    /\ mi' = IF mi = Len(cell_members) THEN 1 ELSE mi + 1
    /\ pc' = IF mi = Len(cell_members) THEN "cell_loop" ELSE "cell_assign"
    /\ UNCHANGED <<obj, clock, user, stack, cell_members, di, xferv, genv, dsv, sendv, io>>

\* locations[i] and locations[(i + 1) % len(locations)], i counted from 0.
current_loc(locs, k) == locs[k + 1]

\* As if the next location were taken from the whole pool.
next_loc_from_pool(locs, k) == location_ids[((k + 1) % Len(location_ids)) + 1]

next_loc(locs, k) == locs[((k + 1) % Len(locs)) + 1]

\* One pass of the innermost loop (lines 65-88): the two records of one
\* device of one member at location step i, then the loop bookkeeping,
\* with line 90 when the member loop of this step is finished.
CellEmit ==
    /\ pc = "cell_loop"
    /\ i < Len(locations)
    /\ LET member == cell_members[mi]
           device == member_devices[member][di]
           lastDevice == di = Len(member_devices[member])
           lastMember == lastDevice /\ mi = Len(cell_members)
       IN /\ \E c \in RandInt(CurMinOffset, CurMaxOffset),
                nx \in RandInt(NextMinOffset, NextMaxOffset) :
              LET spent == Cost(c, CurMinOffset) + Cost(nx, NextMinOffset)
              IN /\ spent <= budget
                 /\ budget' = budget - spent
                 /\ movements' = movements \o
                      <<Movement(device, member, AddMinutes(base_time, c),
                                 current_loc(locations, i)),
                        Movement(device, member, AddMinutes(base_time, nx),
                                 next_loc(locations, i))>>
          /\ di' = IF lastDevice THEN 1 ELSE di + 1
          /\ mi' = IF lastMember THEN 1 ELSE IF lastDevice THEN mi + 1 ELSE mi
          /\ i' = IF lastMember THEN i + 1 ELSE i
          /\ base_time' = IF lastMember THEN AddHours(base_time, CellStepHours)
                          ELSE base_time
          /\ pc' = IF lastMember /\ i + 1 = Len(locations) THEN "cell_done"
                   ELSE "cell_loop"
    /\ UNCHANGED <<obj, clock, user, stack, cell_members, member_devices, locations,
                   xferv, dsv, sendv, io>>

\* return movements: to the object's user, or into generate_dataset.
CellReturn ==
    /\ pc = "cell_done"
    /\ ResetCellLocals
    /\ ResetLoopLocals
    /\ IF stack = <<>>
       THEN /\ pc' = "idle"
            /\ movements' = <<>>
            /\ stack' = stack
       ELSE /\ pc' = Head(stack)
            /\ movements' = movements
            /\ stack' = Tail(stack)
    /\ UNCHANGED <<obj, env, user, xferv, dsv, sendv, io>>

\* ------------------------------------- generate_device_transfer_pattern
\* Lines 96-104.
EnterTransfer ==
    /\ \E cl \in Choice(terrorist_cells), dev \in Choice(device_ids),
          h \in RandInt(0, HoursBack), tk \in Ticks :
        LET spent == Cost(cl, terrorist_cells[1]) + Cost(dev, device_ids[1])
                     + Cost(h, 0) + Cost(tk, 1)
        IN /\ spent <= budget
           /\ budget' = budget - spent
           /\ clock' = AddMicros(clock, tk)
           /\ cell' = cl
           /\ locations' = cell_locations[cl]
           /\ device_id' = dev
           /\ base_time' = AddHours(clock, 0 - h)
    /\ movements' = <<>>
    /\ i' = 0
    /\ pc' = IF Len(terrorist_cells[1]) = 0 THEN "transfer_done" ELSE "transfer_loop"

HarnessCallTransfer ==
    /\ pc = "idle"
    /\ calls < MaxCalls
    /\ calls' = calls + 1
    /\ EnterTransfer
    /\ UNCHANGED <<obj, stack, cellv, dsv, sendv, io>>

\* cell[i] and cell[(i + 1) % len(cell)], i counted from 0.
current_owner(cl, k) == cl[k + 1]

\* As if the last member handed over to nobody new (no wrap-around).
next_owner_clamped(cl, k) == cl[Min(k + 1, Len(cl) - 1) + 1]

next_owner(cl, k) == cl[((k + 1) % Len(cl)) + 1]

\* One pass of the loop of lines 107-134.
TransferStep ==
    /\ pc = "transfer_loop"
    /\ i < Len(cell)
    /\ \E transfer_location \in Choice(locations),
          off \in RandInt(HandMinOffset, HandMaxOffset) :
            LET spent == Cost(transfer_location, locations[1])
                         + Cost(off, HandMinOffset)
            IN /\ spent <= budget
               /\ budget' = budget - spent
               /\ movements' = movements \o
                    <<Movement(device_id, current_owner(cell, i), base_time,
                               transfer_location),
                      Movement(device_id, next_owner(cell, i), AddMinutes(base_time, off),
                               transfer_location)>>
    /\ base_time' = AddHours(base_time, TransferStepHours)
    /\ i' = i + 1
    /\ pc' = IF i + 1 = Len(cell) THEN "transfer_done" ELSE "transfer_loop"
    /\ UNCHANGED <<obj, clock, user, stack, cellv, xferv, locations, dsv, sendv, io>>

TransferReturn ==
    /\ pc = "transfer_done"
    /\ ResetTransferLocals
    /\ ResetLoopLocals
    /\ IF stack = <<>>
       THEN /\ pc' = "idle"
            /\ movements' = <<>>
            /\ stack' = stack
       ELSE /\ pc' = Head(stack)
            /\ movements' = movements
            /\ stack' = Tail(stack)
    /\ UNCHANGED <<obj, env, user, cellv, dsv, sendv, io>>

\* The pattern generators, called one after another on one object.
NextPatterns ==
    \/ HarnessNormal
    \/ HarnessCallCell
    \/ CellAssign
    \/ CellEmit
    \/ CellReturn
    \/ HarnessCallTransfer
    \/ TransferStep
    \/ TransferReturn

Init == InitWith(MaxVaried)

SpecPatterns == Init /\ [][NextPatterns]_vars

\* ------------------------------------------------------ generate_dataset
\* list.sort(key=lambda x: x['timestamp']): a stable sort that compares the
\* keys, which are strings, with <.  In its result an element stands behind
\* the elements with a smaller key and behind the elements before it in the
\* list whose key is not greater.
TimestampKey(x) == x.timestamp

\* As if the sort were not stable: equal keys come out in reverse order.
PlacedAheadUnstable(s) ==
    [k \in 1..Len(s) |->
        Cardinality({j \in 1..Len(s) :
            \/ StrLess(TimestampKey(s[j]), TimestampKey(s[k]))
            \/ j > k /\ ~ StrLess(TimestampKey(s[k]), TimestampKey(s[j]))})]

\* ahead[k]: how many elements the sort places before s[k].
PlacedAhead(s) ==
    [k \in 1..Len(s) |->
        Cardinality({j \in 1..Len(s) :
            \/ StrLess(TimestampKey(s[j]), TimestampKey(s[k]))
            \/ j < k /\ ~ StrLess(TimestampKey(s[k]), TimestampKey(s[j]))})]

SortByTimestamp(s) ==
    CHOOSE out \in
        {[p \in 1..Len(s) |-> s[CHOOSE k \in 1..Len(s) : ahead[k] = p - 1]] :
            ahead \in {PlacedAhead(s)}} : TRUE

\* Line 140.
EnterDataset ==
    /\ all_movements' = <<>>
    /\ cnt' = 0
    /\ pc' = "ds_normal"

HarnessCallDataset ==
    /\ pc = "idle"
    /\ calls < MaxCalls
    /\ calls' = calls + 1
    /\ EnterDataset
    /\ UNCHANGED <<obj, env, stack, cellv, xferv, genv, sendv, io>>

AppendToAll(rec) == all_movements' = Append(all_movements, rec)

\* Lines 144-145, one pass.
DatasetNormal ==
    /\ pc = "ds_normal"
    /\ cnt < NumNormal
    /\ NormalCall(AppendToAll)
    /\ cnt' = IF cnt + 1 = NumNormal THEN 0 ELSE cnt + 1
    /\ pc' = IF cnt + 1 = NumNormal THEN "ds_cells" ELSE "ds_normal"
    /\ UNCHANGED <<obj, user, stack, cellv, xferv, genv, sendv, io>>

\* Lines 149-150: the call ...
DatasetCallCell ==
    /\ pc = "ds_cells"
    /\ cnt < Len(terrorist_cells)
    /\ EnterCell(terrorist_cells[cnt + 1])
    /\ stack' = <<"ds_cells_extend">> \o stack
    /\ UNCHANGED <<user, xferv, dsv, sendv, io>>

\* ... and all_movements.extend(...) of what it returned.
DatasetExtendCell ==
    /\ pc = "ds_cells_extend"
    /\ all_movements' = all_movements \o movements
    /\ movements' = <<>>
    /\ cnt' = IF cnt + 1 = Len(terrorist_cells) THEN 0 ELSE cnt + 1
    /\ pc' = IF cnt + 1 = Len(terrorist_cells) THEN "ds_transfers" ELSE "ds_cells"
    /\ UNCHANGED <<obj, env, user, stack, cellv, xferv, locations, base_time, i,
                   sendv, io>>

\* Lines 154-155.
DatasetCallTransfer ==
    /\ pc = "ds_transfers"
    /\ cnt < NumTransfers
    /\ EnterTransfer
    /\ stack' = <<"ds_transfers_extend">> \o stack
    /\ UNCHANGED <<obj, user, cellv, dsv, sendv, io>>

DatasetExtendTransfer ==
    /\ pc = "ds_transfers_extend"
    /\ all_movements' = all_movements \o movements
    /\ movements' = <<>>
    /\ cnt' = IF cnt + 1 = NumTransfers THEN 0 ELSE cnt + 1
    /\ pc' = IF cnt + 1 = NumTransfers THEN "ds_sort" ELSE "ds_transfers"
    /\ UNCHANGED <<obj, env, user, stack, cellv, xferv, locations, base_time, i,
                   sendv, io>>

\* Line 158.
DatasetSort ==
    /\ pc = "ds_sort"
    /\ all_movements' = SortByTimestamp(all_movements)
    /\ pc' = "ds_done"
    /\ UNCHANGED <<obj, env, user, stack, cellv, xferv, genv, cnt, sendv, io>>

\* return all_movements: to the object's user, or to main().
DatasetReturn ==
    /\ pc = "ds_done"
    /\ all_movements' = <<>>
    /\ IF stack = <<>>
       THEN /\ pc' = "idle"
            /\ movements' = movements
            /\ stack' = stack
       ELSE /\ pc' = Head(stack)
            /\ movements' = all_movements
            /\ stack' = Tail(stack)
    /\ UNCHANGED <<obj, env, user, cellv, xferv, locations, base_time, i, cnt,
                   sendv, io>>

NextDataset ==
    \/ HarnessCallDataset
    \/ DatasetNormal
    \/ DatasetCallCell
    \/ CellAssign
    \/ CellEmit
    \/ CellReturn
    \/ DatasetExtendCell
    \/ DatasetCallTransfer
    \/ TransferStep
    \/ TransferReturn
    \/ DatasetExtendTransfer
    \/ DatasetSort
    \/ DatasetReturn

InitLong == InitWith(MaxVariedLong)

SpecDataset == InitLong /\ [][NextDataset]_vars

\* -------------------------------------------------------- send_movements
\* What one request meets: a response with a status code and a JSON body
\* (default), requests.post raising, or response.json() raising.
Outcomes ==
    {[raises |-> "", code |-> 200], [raises |-> "", code |-> 500],
     [raises |-> "post", code |-> 0], [raises |-> "json", code |-> 0]}

DefaultOutcome == [raises |-> "", code |-> 200]

Event(name, k) == [ev |-> name, at |-> k]

SuccessEntry(movement, code) ==
    [movement |-> movement, status |-> code, response |-> "json"]

ErrorEntry(movement, message) ==
    [movement |-> movement, status |-> "error", error |-> message]

\* Lines 164-167.  An empty list skips the loop.
EnterSend(movs, dl) ==
    /\ movements' = movs
    /\ delay' = dl
    /\ results' = <<>>
    /\ i' = 0
    /\ pc' = IF Len(movs) = 0 THEN "send_done" ELSE "send_loop"

\* The lists the object's user hands over: k different records.
SomeMovements(k) ==
    [j \in 1..k |->
        Movement(device_ids[((j - 1) % Len(device_ids)) + 1], owner_ids[j],
                 AddMinutes(StartClock, j), location_ids[1])]

\* time.sleep(delay) raises ValueError for a negative delay.
Delays == {DefaultDelay, 0 - 1}

HarnessCallSend ==
    /\ pc = "idle"
    /\ calls < MaxCalls
    /\ calls' = calls + 1
    /\ \E k \in 0..MaxMovements, dl \in Delays : EnterSend(SomeMovements(k), dl)
    /\ UNCHANGED <<obj, env, stack, cellv, xferv, locations, base_time, dsv, io>>

PostEvent(k, movement) == [ev |-> "post", at |-> k, body |-> movement]

\* Lines 185-191: the except clause.
Handler(k, movement, message) ==
    [events |-> <<Event("error_print", k)>>,
     entries |-> <<ErrorEntry(movement, message)>>]

\* Lines 174-183, once the response is there and its JSON parsed: the entry,
\* the notice when k % 100 == 0, the sleep; a sleep that raises leaves for
\* the except clause with the entry already appended.
Completed(k, movement, code, dl) ==
    LET notice == IF k % ProgressEvery = 0 THEN <<Event("notice", k)>> ELSE <<>>
        caught == Handler(k, movement, "sleep")
    IN IF dl < 0
       THEN [events |-> notice \o caught.events,
             entries |-> <<SuccessEntry(movement, code)>> \o caught.entries]
       ELSE [events |-> notice \o <<Event("sleep", k)>>,
             entries |-> <<SuccessEntry(movement, code)>>]

\* As if a failed request were tried again before giving up.
AttemptWithRetry(k, movement, out, dl) ==
    LET rest == IF out.raises # "" THEN Handler(k, movement, out.raises)
                ELSE Completed(k, movement, out.code, dl)
        again == IF out.raises # "" THEN <<PostEvent(k, movement)>> ELSE <<>>
    IN [events |-> <<PostEvent(k, movement)>> \o again \o rest.events,
        entries |-> rest.entries]

\* Lines 169-191 for record k: what the outside sees and what is appended
\* to results.
Attempt(k, movement, out, dl) ==
    LET rest == IF out.raises # "" THEN Handler(k, movement, out.raises)
                ELSE Completed(k, movement, out.code, dl)
    IN [events |-> <<PostEvent(k, movement)>> \o rest.events,
        entries |-> rest.entries]

\* One pass of the loop of lines 168-191, record k = i + 1.
SendStep ==
    /\ pc = "send_loop"
    /\ i < Len(movements)
    /\ \E out \in Outcomes :
        LET spent == Cost(out, DefaultOutcome)
            done == Attempt(i + 1, movements[i + 1], out, delay)
        IN /\ spent <= budget
           /\ budget' = budget - spent
           /\ trace' = trace \o done.events
           /\ results' = results \o done.entries
    /\ i' = i + 1
    /\ pc' = IF i + 1 = Len(movements) THEN "send_done" ELSE "send_loop"
    /\ UNCHANGED <<obj, clock, user, stack, cellv, xferv, locations, base_time,
                   movements, dsv, delay, answer>>

\* return results: to the object's user, or to main().
SendReturn ==
    /\ pc = "send_done"
    /\ IF stack = <<>>
       THEN /\ pc' = "idle"
            /\ stack' = stack
            /\ movements' = <<>>
            /\ results' = <<>>
            /\ delay' = 0
            /\ i' = 0
            /\ trace' = <<>>
       ELSE /\ pc' = Head(stack)
            /\ stack' = Tail(stack)
            /\ UNCHANGED <<movements, results, delay, i, trace>>
    /\ UNCHANGED <<obj, env, user, cellv, xferv, locations, base_time, dsv, answer>>

NextSend ==
    \/ HarnessCallSend
    \/ SendStep
    \/ SendReturn

SpecSend == Init /\ [][NextSend]_vars

\* ------------------------------------------------------------------ main()
\* What may be typed at "Send to API? (y/n): "; EndOfInput: input() raises.
EndOfInput == "<eof>"

Answers == {"y", "Y", "n", "N", "yes", "YES", "", " y", EndOfInput}

\* As if any answer starting with y or Y counted.
lower_first_letter(line) ==
    CASE line \in {"Y", "yes", "YES"} -> "y"
      [] line = "N" -> "n"
      [] OTHER -> line

\* str.lower()
lower(line) ==
    CASE line = "Y" -> "y"
      [] line = "N" -> "n"
      [] line = "YES" -> "yes"
      [] OTHER -> line

\* Lines 197-207: the object is the one Init built; generate_dataset().
MainGenerate ==
    /\ pc = "idle"
    /\ calls = 0
    /\ calls' = 1
    /\ EnterDataset
    /\ stack' = <<"main_save">>
    /\ UNCHANGED <<obj, env, cellv, xferv, genv, sendv, io>>

\* Lines 210-212; a failing open or dump leaves for the handler of line 223.
MainSave ==
    /\ pc = "main_save"
    /\ \E written \in BOOLEAN :
         IF written
         THEN /\ trace' = Append(trace, Event("write_movements", Len(movements)))
              /\ pc' = "main_prompt"
         ELSE /\ trace' = trace
              /\ pc' = "exit"
    /\ UNCHANGED <<obj, env, user, stack, cellv, xferv, genv, dsv, sendv, answer>>

\* Line 215, and the call of line 216.
MainPrompt ==
    /\ pc = "main_prompt"
    /\ \E line \in Answers :
         /\ answer' = line
         /\ trace' = Append(trace, Event("prompt", 0))
         /\ IF line # EndOfInput /\ lower(line) = "y"
            THEN /\ EnterSend(movements, DefaultDelay)
                 /\ stack' = <<"main_save_results">>
            ELSE /\ pc' = "exit"
                 /\ UNCHANGED <<stack, movements, delay, results, i>>
    /\ UNCHANGED <<obj, env, user, cellv, xferv, locations, base_time, dsv>>

\* Lines 219-221.
MainSaveResults ==
    /\ pc = "main_save_results"
    /\ \E written \in BOOLEAN :
         trace' = IF written THEN Append(trace, Event("write_results", Len(results)))
                  ELSE trace
    /\ pc' = "exit"
    /\ UNCHANGED <<obj, env, user, stack, cellv, xferv, genv, dsv, sendv, answer>>

NextMain ==
    \/ MainGenerate
    \/ DatasetNormal
    \/ DatasetCallCell
    \/ CellAssign
    \/ CellEmit
    \/ CellReturn
    \/ DatasetExtendCell
    \/ DatasetCallTransfer
    \/ TransferStep
    \/ TransferReturn
    \/ DatasetExtendTransfer
    \/ DatasetSort
    \/ DatasetReturn
    \/ MainSave
    \/ MainPrompt
    \/ SendStep
    \/ SendReturn
    \/ MainSaveResults

SpecMain == InitLong /\ [][NextMain]_vars

\* ------------------------------------------------- one object, any calls
Next == NextPatterns \/ NextDataset \/ NextSend

Spec == InitLong /\ [][Next]_vars

\* ================================================================ claims
InSend == pc \in {"send_loop", "send_done"}

IsPost(e) == e.ev = "post"

Posts == SelectSeq(trace, IsPost)

IsErrorEntry(e) == "error" \in DOMAIN e

WellFormedEntry(e) ==
    IF "response" \in DOMAIN e
    THEN e.status \in 100..599 /\ DOMAIN e = {"movement", "status", "response"}
    ELSE /\ DOMAIN e = {"movement", "status", "error"}
         /\ e.status = "error"

\* C1: send_movements keeps one well-formed result entry per record handled,
\* entry k carrying input record k, so that it returns exactly N entries for
\* N records, whatever succeeded or failed (a raising sleep included).
C1_OneEntryPerRecord ==
    InSend =>
        /\ Len(results) = i
        /\ \A k \in 1..Len(results) :
             /\ k <= Len(movements)
             /\ results[k].movement = movements[Min(k, Len(movements))]
             /\ WellFormedEntry(results[k])

\* One record, a successful POST and a sleep that raises: two entries.
C1_Divergence ==
    /\ pc = "send_done"
    /\ delay < 0
    /\ Len(movements) = 1
    /\ Len(results) = 2
    /\ ~ IsErrorEntry(results[1])
    /\ IsErrorEntry(results[2])
    /\ results[1].movement = results[2].movement

\* C5: with a valid delay, exactly one sleep lies between any two
\* consecutive POSTs, whether the first of the two requests failed or not.
C5_SleepBetweenPosts ==
    (InSend /\ delay >= 0) =>
        \A p \in 1..Len(trace), q \in 1..Len(trace) :
            (/\ p < q
             /\ IsPost(trace[p])
             /\ IsPost(trace[q])
             /\ \A r \in (p + 1)..(q - 1) : ~ IsPost(trace[r]))
            => Cardinality({r \in (p + 1)..(q - 1) : trace[r].ev = "sleep"}) = 1

\* A failed request, its error line, and at once the next POST.
C5_Divergence ==
    /\ InSend
    /\ delay >= 0
    /\ \E p \in 1..(Len(trace) - 2) :
         /\ IsPost(trace[p])
         /\ trace[p + 1].ev = "error_print"
         /\ IsPost(trace[p + 2])

\* C6: every record handled so far was POSTed exactly once, in input order
\* and with the record as its body; the loop goes on after a failure and
\* ends only after the last record.
C6_EveryRecordPostedOnce ==
    InSend =>
        /\ Len(Posts) = i
        /\ i <= Len(movements)
        /\ \A k \in 1..Len(Posts) :
             /\ Posts[k].at = k
             /\ Posts[k].body = movements[Min(k, Len(movements))]
        /\ pc = "send_loop" => i < Len(movements)
        /\ pc = "send_done" => i = Len(movements)

\* A failed first record, and every later record POSTed all the same.
C6_Witness ==
    /\ pc = "send_done"
    /\ Len(movements) >= 3
    /\ Len(results) = Len(movements)
    /\ IsErrorEntry(results[1])
    /\ Len(Posts) = Len(movements)

\* C7: (with a valid delay) a progress notice for position k has been
\* emitted exactly once for every handled position k that is a multiple of the
\* period, whether record k succeeded or failed, and none for any other
\* position.
C7_NoticeEveryPeriod ==
    (InSend /\ delay >= 0) =>
        \A k \in 1..i :
            Cardinality({p \in 1..Len(trace) :
                trace[p].ev = "notice" /\ trace[p].at = k})
              = (IF k % ProgressEvery = 0 THEN 1 ELSE 0)

\* The record at a multiple of the period failed, and no notice names it.
C7_Divergence ==
    /\ InSend
    /\ delay >= 0
    /\ i >= ProgressEvery
    /\ IsErrorEntry(results[ProgressEvery])
    /\ \A p \in 1..Len(trace) : trace[p].ev # "notice"

\* ------------------------------------------------------ pattern generators
RECURSIVE DevicesAssigned(_, _)
DevicesAssigned(members, assigned) ==
    IF members = <<>> THEN 0
    ELSE Len(assigned[Head(members)]) + DevicesAssigned(Tail(members), assigned)

\* C3: the cell pattern, for a defined cell, returns 2 x (location steps) x
\* (devices assigned, 1 to 3 per member) records, each at a location of that
\* cell's fixed location set.
C3_CellPatternShape ==
    pc = "cell_done" =>
        /\ cell_members \in Range(terrorist_cells)
        /\ Len(locations) = LocsPerCell
        /\ DOMAIN member_devices = Range(cell_members)
        /\ \A mem \in Range(cell_members) :
             Len(member_devices[mem]) \in MinDevices..MaxDevices
        /\ Len(movements)
             = 2 * LocsPerCell * DevicesAssigned(cell_members, member_devices)
        /\ \A k \in 1..Len(movements) :
             movements[k].location_id \in Range(cell_locations[cell_members])

\* A finished pattern in which a member has more than one device, so that
\* the count is not just 2 x steps x members.
C3_Witness ==
    /\ pc = "cell_done"
    /\ \E mem \in Range(cell_members) : Len(member_devices[mem]) > 1
    /\ Len(movements) > 2 * LocsPerCell * Len(cell_members)

\* C4: the transfer pattern returns 2 x (cell size) records of one device;
\* records 2k and 2k+1 (counted from 0) belong to members k and (k+1) mod size
\* of the chosen cell and share one location of that cell's location set.
C4_TransferPatternShape ==
    pc = "transfer_done" =>
        /\ cell \in Range(terrorist_cells)
        /\ Len(cell) = CellSize
        /\ Len(movements) = 2 * Len(cell)
        /\ \A k \in 1..Len(movements) : movements[k].device_id = device_id
        /\ \A k \in 0..(Len(cell) - 1) :
             /\ movements[(2 * k) + 1].owner_id = cell[k + 1]
             /\ movements[(2 * k) + 2].owner_id = cell[((k + 1) % Len(cell)) + 1]
             /\ movements[(2 * k) + 1].location_id = movements[(2 * k) + 2].location_id
             /\ movements[(2 * k) + 1].location_id \in Range(cell_locations[cell])

\* A finished transfer whose last record hands the device back to the first
\* member of the cell.
C4_Witness ==
    /\ pc = "transfer_done"
    /\ Len(movements) = 2 * CellSize
    /\ movements[Len(movements)].owner_id = cell[1]
    /\ movements[Len(movements) - 1].owner_id = cell[Len(cell)]
    /\ cell[1] # cell[Len(cell)]

SamePair(x, y) == x.owner_id = y.owner_id /\ x.device_id = y.device_id

MinutesApart(x, y) == InstantMinutes(y.timestamp) - InstantMinutes(x.timestamp)

\* C10: in the list a pattern generator is building, the records of one
\* (owner, device) pair are in strictly increasing time order; in the transfer
\* pattern the whole list is.
C10_PairTimesIncrease ==
    /\ pc \in {"cell_loop", "cell_done"} =>
         \A p \in 1..Len(movements), q \in 1..Len(movements) :
            (p < q /\ SamePair(movements[p], movements[q]))
            => /\ Before(movements[p].timestamp, movements[q].timestamp)
               /\ StrLess(movements[p].timestamp, movements[q].timestamp)
    /\ pc \in {"transfer_loop", "transfer_done"} =>
         \A p \in 1..Len(movements), q \in 1..Len(movements) :
            p < q
            => /\ Before(movements[p].timestamp, movements[q].timestamp)
               /\ StrLess(movements[p].timestamp, movements[q].timestamp)

\* A finished cell pattern in which the latest arrival at the next location
\* (offset 90) is followed by that pair's record of the following step, only
\* 30 minutes later.
C10_Witness ==
    /\ pc = "cell_done"
    /\ \E p \in 1..Len(movements), q \in 1..Len(movements) :
         /\ p < q
         /\ SamePair(movements[p], movements[q])
         /\ MinutesApart(movements[p], movements[q])
              = (60 * CellStepHours) - NextMaxOffset

\* ---------------------------------------------------------------- dataset
ChronologicallySorted(s) ==
    \A p \in 1..Len(s), q \in 1..Len(s) :
        p < q => ~ Before(s[q].timestamp, s[p].timestamp)

WithKey(s, key) == SelectSeq(s, LAMBDA x : x.timestamp = key)

\* out holds the records of inp, in time order, those of one timestamp in the
\* order they have in inp.
StableSortOf(out, inp) ==
    /\ Len(out) = Len(inp)
    /\ ChronologicallySorted(out)
    /\ \A k \in 1..Len(inp) :
         WithKey(out, inp[k].timestamp) = WithKey(inp, inp[k].timestamp)

IsPrefix(s, t) == Len(s) <= Len(t) /\ SubSeq(t, 1, Len(s)) = s

\* What one step of generate_dataset does to all_movements.
DatasetStepOrdered ==
    /\ pc = "ds_normal" =>
         /\ Len(all_movements) < NumNormal
         /\ Len(all_movements') = Len(all_movements) + 1
         /\ IsPrefix(all_movements, all_movements')
    /\ pc = "ds_cells_extend" =>
         /\ Len(all_movements) >= NumNormal
         /\ all_movements' = all_movements \o movements
         /\ \A k \in 1..Len(movements) :
              movements[k].owner_id \in Range(terrorist_cells[cnt + 1])
    /\ pc = "ds_transfers_extend" =>
         /\ Len(all_movements) >= NumNormal + (NumCells * 2 * LocsPerCell * CellSize)
         /\ all_movements' = all_movements \o movements
         /\ Len(movements) = 2 * CellSize
    /\ pc = "ds_sort" => StableSortOf(all_movements', all_movements)
    /\ pc \in {"ds_cells", "ds_transfers", "cell_assign", "cell_loop", "cell_done",
               "transfer_loop", "transfer_done"} => all_movements' = all_movements

\* C2: generate_dataset returns its records in non-decreasing time order; the
\* list is the concatenation of the generator outputs (the normal records, the
\* cell patterns in cell order, the transfer runs) stably sorted, records of
\* one timestamp keeping their concatenation order.
C2_DatasetStablySorted ==
    /\ [](pc = "ds_done" => ChronologicallySorted(all_movements))
    /\ [][DatasetStepOrdered]_vars

\* A returned dataset holding two different records with one timestamp.
C2_Witness ==
    /\ pc = "ds_done"
    /\ Len(all_movements) > NumNormal + (2 * CellSize)
    /\ \E p \in 1..(Len(all_movements) - 1) :
         /\ all_movements[p].timestamp = all_movements[p + 1].timestamp
         /\ all_movements[p] # all_movements[p + 1]

\* ----------------------------------------------------------------- driver
Seen(name) == \E p \in 1..Len(trace) : trace[p].ev = name

Affirmative == {"y", "Y"}

\* C8: in a run of main() the prompt comes only after test_movements.json is
\* written, and a POST or test_results.json comes only after an affirmative
\* answer; after any other answer the run ends without either.
C8_ConfirmationGate ==
    /\ \A p \in 1..Len(trace) :
         trace[p].ev = "prompt" =>
             \E q \in 1..(p - 1) : trace[q].ev = "write_movements"
    /\ \A p \in 1..Len(trace) :
         trace[p].ev \in {"post", "write_results"} =>
             /\ answer \in Affirmative
             /\ \E q \in 1..(p - 1) : trace[q].ev = "prompt"
    /\ (pc = "exit" /\ answer \notin Affirmative) =>
         ~ Seen("post") /\ ~ Seen("write_results")

\* A run ended after the answer "Y": replayed, results written.
C8_Witness ==
    /\ pc = "exit"
    /\ answer = "Y"
    /\ Seen("post")
    /\ Seen("write_results")

\* ----------------------------------------------------------------- object
IsInjective(s) == \A p \in 1..Len(s), q \in 1..Len(s) : s[p] = s[q] => p = q

\* The cells: consecutive owners from the front of the owner pool, one cell
\* after the other; each with its own sample of distinct locations.
CellsWellFormed ==
    /\ Len(terrorist_cells) = NumCells
    /\ \A c \in 1..NumCells :
         /\ Len(terrorist_cells[c]) = CellSize
         /\ \A k \in 1..CellSize :
              terrorist_cells[c][k] = ((c - 1) * CellSize) + (k - 1)
    /\ \A c1 \in 1..NumCells, c2 \in 1..NumCells :
         c1 # c2 => Range(terrorist_cells[c1]) \cap Range(terrorist_cells[c2]) = {}
    /\ DOMAIN cell_locations = Range(terrorist_cells)
    /\ \A key \in DOMAIN cell_locations :
         /\ Len(cell_locations[key]) = LocsPerCell
         /\ IsInjective(cell_locations[key])
         /\ Range(cell_locations[key]) \subseteq Range(location_ids)

\* C9: the cell partition and the cell -> locations mapping are well-formed
\* and no step of any call on the object changes them.
C9_CellsFixed ==
    /\ []CellsWellFormed
    /\ [][terrorist_cells' = terrorist_cells /\ cell_locations' = cell_locations]_vars

\* The object's user has made all its calls, and one of them has just
\* returned.
C9_Witness ==
    /\ pc = "idle"
    /\ calls = MaxCalls
    /\ CellsWellFormed
====
